---- MODULE Spec2Model ----
(***************************************************************************)
(* mailtutan-lib: the SMTP handler (smtp.rs) and the Message transducer    *)
(* (models/message.rs).                                                    *)
(*                                                                         *)
(* A byte payload is modelled as a sequence of lines; a line is a record   *)
(* [t, n, v]: t is the kind of line, n the header name, v the header value *)
(* or the text of the line.  mailin hands the handler one line per call of *)
(* data().                                                                 *)
(***************************************************************************)
EXTENDS Integers, Sequences, FiniteSets, TLC

VARIABLES
    data,      \* smtp.rs:9    MyHandler.data of each session's handler
    pc,        \* smtp.rs:20   where each session stands in data_end
    message,   \* smtp.rs:21   the local `message` of data_end
    chunks,    \* smtp.rs:14   history: the chunks a session passed to data
               \*              since its last data_end returned
    txn,       \* smtp.rs:25   history: data_end calls that returned
    response,  \* smtp.rs:17,25  the value last returned to the session layer
    storage,   \* smtp.rs:23   the messages held by conn.storage
    mutex,     \* smtp.rs:23   the holder of conn.storage's lock
    slot,      \* the id Storage::add is about to assign, per session
    added,     \* history: completed Storage::add calls
    input,     \* message.rs:42  the argument of Message::from
    result     \* message.rs:42  what Message::from returned

vars == <<data, pc, message, chunks, txn, response, storage, mutex, slot, added,
          input, result>>

(************************* bounds of the model *****************************)
MaxData == 2      \* lines one handler's buffer may hold
MaxTxn == 1       \* data_end calls per session
MaxHdrs == 3      \* envelope header lines of a generated document
MaxParts == 2     \* sub-parts of a generated multipart document

Sessions == {"s1", "s2"}

(****************************** lines **************************************)
Hdr(n, v) == [t |-> "hdr", n |-> n, v |-> v]
Blank == [t |-> "blank", n |-> "", v |-> ""]
Text(v) == [t |-> "text", n |-> "", v |-> v]
Delim == [t |-> "delim", n |-> "", v |-> "--foobar"]
Close == [t |-> "close", n |-> "", v |-> "--foobar--"]
\* a header line mailparse::parse_header returns Err for
Junk == [t |-> "junk", n |-> "", v |-> "?"]

None == <<>>
Some(x) == <<x>>

(********************* mailparse, as message.rs uses it ********************)
\* parse_headers: header lines up to the first blank line; a line without a
\* colon is kept as a header whose key is the line and whose value is empty;
\* Err on a line parse_header rejects.
RECURSIVE parse_headers(_, _, _)
parse_headers(lines, i, acc) ==
    IF i > Len(lines) THEN [err |-> FALSE, headers |-> acc, ix |-> i]
    ELSE IF lines[i].t = "blank" THEN [err |-> FALSE, headers |-> acc, ix |-> i + 1]
    ELSE IF lines[i].t = "junk" THEN [err |-> TRUE, headers |-> acc, ix |-> i]
    ELSE parse_headers(lines, i + 1,
            Append(acc, IF lines[i].t = "hdr"
                        THEN [n |-> lines[i].n, v |-> lines[i].v]
                        ELSE [n |-> lines[i].v, v |-> ""]))

\* MailHeaderMap::get_first_value
RECURSIVE FirstValueFrom(_, _, _)
FirstValueFrom(headers, name, i) ==
    IF i > Len(headers) THEN None
    ELSE IF headers[i].n = name THEN Some(headers[i].v)
    ELSE FirstValueFrom(headers, name, i + 1)

LastValueMutant(headers, name) ==
    LET S == {i \in 1..Len(headers) : headers[i].n = name}
    IN IF S = {} THEN None
       ELSE Some(headers[CHOOSE i \in S : \A j \in S : j <= i].v)

get_first_value(headers, name) == FirstValueFrom(headers, name, 1)

\* MailHeaderMap::get_all_values
RECURSIVE get_all_values(_, _)
get_all_values(headers, name) ==
    IF headers = <<>> THEN <<>>
    ELSE (IF Head(headers).n = name THEN <<Head(headers).v>> ELSE <<>>)
         \o get_all_values(Tail(headers), name)

\* Option::unwrap_or_default for String
unwrap_or_default(opt) == IF opt = None THEN "" ELSE opt[1]

\* the mime type of a part that has no Content-Type header
\* (ParsedContentType::default), as line 80 reads it
OctetStreamMutant == "application/octet-stream"
DefaultMimetype == "text/plain"

\* parse_content_type on the first Content-Type header
CtBoundary == "multipart/alternative; boundary=foobar"
ctype(headers) ==
    LET h == get_first_value(headers, "Content-Type")
    IN IF h = None THEN [mimetype |-> DefaultMimetype, boundary |-> FALSE]
       ELSE IF h[1] = CtBoundary
            THEN [mimetype |-> "multipart/alternative", boundary |-> TRUE]
            ELSE [mimetype |-> h[1], boundary |-> FALSE]

\* ParsedMail::get_content_disposition: Inline when the part has no
\* Content-Disposition header; params holds the filename parameter, if any
DispFile == "attachment; filename=f.txt"
get_content_disposition(headers) ==
    LET h == get_first_value(headers, "Content-Disposition")
    IN IF h = None THEN [disposition |-> "Inline", filename |-> None]
       ELSE IF h[1] = DispFile
            THEN [disposition |-> "Attachment", filename |-> Some("f.txt")]
            ELSE IF h[1] = "attachment"
                 THEN [disposition |-> "Attachment", filename |-> None]
                 ELSE [disposition |-> "Inline", filename |-> None]

\* base64 decoding of one body line: "YjE=" is "b1"; any other line is not
\* base64
B64Valid(l) == l = Text("YjE=")
B64(l) == Text("b1")

\* ParsedMail::get_body_raw / get_body: the body decoded by the part's
\* Content-Transfer-Encoding; None stands for Err
get_body(part) ==
    IF get_first_value(part.headers, "Content-Transfer-Encoding") = Some("base64")
    THEN IF \A i \in 1..Len(part.body) : B64Valid(part.body[i])
         THEN Some([i \in 1..Len(part.body) |-> B64(part.body[i])])
         ELSE None
    ELSE Some(part.body)

SubSeqFrom(s, i) == SubSeq(s, i, Len(s))

\* one entity without sub-parts
ParseEntity(lines) ==
    LET h == parse_headers(lines, 1, <<>>)
    IN [err |-> h.err, headers |-> h.headers, ctype |-> ctype(h.headers),
        body |-> SubSeqFrom(lines, h.ix), subparts |-> <<>>]

IsBoundary(l) == l.t \in {"delim", "close"}

\* index of the first boundary line at or after i, Len + 1 when there is none
RECURSIVE FindBoundary(_, _)
FindBoundary(lines, i) ==
    IF i > Len(lines) THEN i
    ELSE IF IsBoundary(lines[i]) THEN i
    ELSE FindBoundary(lines, i + 1)

\* the sub-part loop of parse_mail_recursive: b is the index of the boundary
\* line that opens the next sub-part, which runs to the next boundary line
\* or to the end; the loop ends after a part closed by the end of the data,
\* by the closing boundary or by a boundary that is the last line
RECURSIVE Subparts(_, _)
Subparts(lines, b) ==
    LET e == FindBoundary(lines, b + 1)
        p == ParseEntity(SubSeq(lines, b + 1, e - 1))
    IN <<p>> \o (IF e >= Len(lines) \/ lines[e].t = "close"
                 THEN <<>> ELSE Subparts(lines, e))

\* parse_mail: the body up to the first boundary line is the preamble, the
\* sub-parts follow it.  A sub-part holds no boundary line of its parent,
\* so sub-parts have no sub-parts of their own here.
parse_mail(lines) ==
    LET top == ParseEntity(lines)
        b == FindBoundary(top.body, 1)
        found == top.ctype.boundary /\ b <= Len(top.body)
        subs == IF found THEN Subparts(top.body, b) ELSE <<>>
    IN IF top.err THEN top
       ELSE [top EXCEPT !.subparts = subs,
                        !.err = \E i \in 1..Len(subs) : subs[i].err,
                        !.body = IF found THEN SubSeq(top.body, 1, b - 1)
                                 ELSE top.body]

(************************ models/message.rs ********************************)
\* part.ctype.mimetype, lines 67 and 80
mimetype(part) == part.ctype.mimetype

\* lines 65-78: the attachment branch; each unwrap() is a panic site
AttachmentBranch(acc, part) ==
    LET disp == get_content_disposition(part.headers)
        cid == get_first_value(part.headers, "Content-ID")
    IN IF disp.filename = None THEN [acc EXCEPT !.panic = "filename"]
       ELSE IF get_body(part) = None THEN [acc EXCEPT !.panic = "body"]
       ELSE IF cid = None THEN [acc EXCEPT !.panic = "cid"]
       ELSE [acc EXCEPT !.attachments =
                Append(@, [cid |-> cid[1], file_type |-> mimetype(part),
                           filename |-> disp.filename[1],
                           body |-> get_body(part)[1]])]

\* lines 81-84
KeepFirstHtmlMutant(acc, part) ==
    [acc EXCEPT !.formats = Append(@, "html"),
                !.html = IF @ = None THEN get_body(part) ELSE @]
HtmlArm(acc, part) ==
    [acc EXCEPT !.formats = Append(@, "html"), !.html = get_body(part)]

\* lines 85-88
PlainArm(acc, part) ==
    [acc EXCEPT !.formats = Append(@, "plain"), !.plain = get_body(part)]

\* line 64: the test that sends a part to the attachment branch
IsAttachment(part) ==
    get_content_disposition(part.headers).disposition = "Attachment"

\* lines 64-91: the body of the loop over the parts
PartStep(acc, part) ==
    IF IsAttachment(part) THEN AttachmentBranch(acc, part)
    ELSE IF mimetype(part) = "text/html" THEN HtmlArm(acc, part)
    ELSE IF mimetype(part) = "text/plain" THEN PlainArm(acc, part)
    ELSE [acc EXCEPT !.panic = "todo"]

\* lines 63-92: the loop; a panic ends it
RECURSIVE PartLoop(_, _)
PartLoop(acc, parts) ==
    IF parts = <<>> \/ acc.panic # "none" THEN acc
    ELSE PartLoop(PartStep(acc, Head(parts)), Tail(parts))

\* lines 57-61
PartsOf(parsed) ==
    IF Len(parsed.subparts) > 0 THEN parsed.subparts ELSE <<parsed>>

\* lines 52-55
LoopInit ==
    [formats |-> <<"source">>, html |-> None, plain |-> None,
     attachments |-> <<>>, panic |-> "none"]

\* Utc::now().to_rfc3339(), line 99: the reading of the clock, which nothing
\* in these two files reads back
Now == "rfc3339"

Panicked(site) == [panic |-> site, msg |-> None]

\* Message::from, lines 42-106: the Message, or the site of the panic
MessageFrom(d) ==
    LET parsed == parse_mail(d)
        acc == PartLoop(LoopInit, PartsOf(parsed))
    IN IF parsed.err THEN Panicked("parse_mail")
       ELSE IF acc.panic # "none" THEN Panicked(acc.panic)
       ELSE [panic |-> "none",
             msg |-> Some([id |-> None,
                  sender |-> unwrap_or_default(get_first_value(parsed.headers, "From")),
                  recipients |-> get_all_values(parsed.headers, "To"),
                  subject |-> unwrap_or_default(get_first_value(parsed.headers, "Subject")),
                  created_at |-> Some(Now),
                  attachments |-> acc.attachments,
                  source |-> d,
                  formats |-> acc.formats,
                  html |-> acc.html,
                  plain |-> acc.plain])]


(****************************** smtp.rs ************************************)
\* the lines a session sends in the adapter specification
AdapterLines == {Hdr("From", "a"), Hdr("To", "x"), Junk}

NotRun == [panic |-> "notrun", msg |-> None]

\* Vec::append, line 15
PrependMutant(buf, chunk) == chunk \o buf
append(buf, chunk) == buf \o chunk

\* Mutex::lock, line 23: blocks while another session holds the guard
NoLockMutant(s) == TRUE
CanLock(s) == mutex = None

\* MyHandler::data, lines 14-18
Data(s, l) ==
    /\ pc[s] = "idle"
    /\ Len(data[s]) < MaxData
    /\ data' = [data EXCEPT ![s] = append(@, <<l>>)]
    /\ chunks' = [chunks EXCEPT ![s] = @ \o <<l>>]
    /\ response' = [response EXCEPT ![s] = "Ok(())"]
    /\ UNCHANGED <<pc, message, txn, storage, mutex, slot, added, input, result>>

\* MyHandler::data_end, line 21: Message::from(&self.data); a panic unwinds
\* the session's thread
DataEndFrom(s) ==
    /\ pc[s] = "idle"
    /\ txn[s] < MaxTxn
    /\ message' = [message EXCEPT ![s] = MessageFrom(data[s])]
    /\ pc' = [pc EXCEPT ![s] = IF message'[s].panic = "none"
                               THEN "lock" ELSE "panicked"]
    /\ response' = [response EXCEPT ![s] = "none"]
    /\ UNCHANGED <<data, chunks, txn, storage, mutex, slot, added, input, result>>

\* line 23: self.conn.storage.lock().unwrap()
Lock(s) ==
    /\ pc[s] = "lock"
    /\ CanLock(s)
    /\ mutex' = Some(s)
    /\ pc' = [pc EXCEPT ![s] = "add"]
    /\ UNCHANGED <<data, message, chunks, txn, response, storage, slot, added,
                   input, result>>

\* Storage::add, first half: the next free id is read
AddRead(s) ==
    /\ pc[s] = "add"
    /\ slot' = [slot EXCEPT ![s] = Len(storage) + 1]
    /\ pc' = [pc EXCEPT ![s] = "write"]
    /\ UNCHANGED <<data, message, chunks, txn, response, storage, mutex, added,
                   input, result>>

\* Storage::add, second half: the message is stored under that id
AddWrite(s) ==
    /\ pc[s] = "write"
    /\ LET m == [message[s].msg[1] EXCEPT !.id = Some(slot[s])]
       IN storage' = IF slot[s] > Len(storage) THEN Append(storage, m)
                     ELSE [storage EXCEPT ![slot[s]] = m]
    /\ added' = added + 1
    /\ pc' = [pc EXCEPT ![s] = "return"]
    /\ UNCHANGED <<data, message, chunks, txn, response, mutex, slot, input, result>>

\* lines 23-25: the guard is dropped at the end of the statement and OK is
\* returned; self.data is left as it is
Return(s) ==
    /\ pc[s] = "return"
    /\ mutex' = IF mutex = Some(s) THEN None ELSE mutex
    /\ response' = [response EXCEPT ![s] = "OK"]
    /\ txn' = [txn EXCEPT ![s] = @ + 1]
    /\ chunks' = [chunks EXCEPT ![s] = <<>>]
    /\ message' = [message EXCEPT ![s] = NotRun]
    /\ pc' = [pc EXCEPT ![s] = "idle"]
    /\ UNCHANGED <<data, storage, slot, added, input, result>>

\* serve, lines 29-44: every session starts from a clone of the handler
\* built with data: vec![]
Init ==
    /\ data = [s \in Sessions |-> <<>>]
    /\ pc = [s \in Sessions |-> "idle"]
    /\ message = [s \in Sessions |-> NotRun]
    /\ chunks = [s \in Sessions |-> <<>>]
    /\ txn = [s \in Sessions |-> 0]
    /\ response = [s \in Sessions |-> "none"]
    /\ storage = <<>>
    /\ mutex = None
    /\ slot = [s \in Sessions |-> 0]
    /\ added = 0
    /\ input = <<>>
    /\ result = NotRun

Next ==
    \E s \in Sessions :
        \/ \E l \in AdapterLines : Data(s, l)
        \/ DataEndFrom(s)
        \/ Lock(s)
        \/ AddRead(s)
        \/ AddWrite(s)
        \/ Return(s)

Spec == Init /\ [][Next]_vars

(******************* the transducer on generated documents *****************)
SeqsUpTo(S, n) == UNION {[1..k -> S] : k \in 0..n}

EnvelopeLines ==
    {Hdr("From", "a"), Hdr("From", "b"), Hdr("To", "x"), Hdr("To", "y"),
     Hdr("Subject", "s"), Hdr("Subject", "t")}

\* the lines of one part: its headers, the blank line, one body line
PartOf(ct, disp, cid, cte, body) ==
    (IF ct = "" THEN <<>> ELSE <<Hdr("Content-Type", ct)>>)
    \o (IF disp = "" THEN <<>> ELSE <<Hdr("Content-Disposition", disp)>>)
    \o (IF cid THEN <<Hdr("Content-ID", "c1")>> ELSE <<>>)
    \o (IF cte THEN <<Hdr("Content-Transfer-Encoding", "base64")>> ELSE <<>>)
    \o <<Blank, Text(body)>>

InlineKinds ==
    {PartOf(ct, "", FALSE, FALSE, b) :
        ct \in {"", "text/plain", "text/html", "image/png", CtBoundary},
        b \in {"b1", "b2"}}
    \cup {PartOf(ct, "", FALSE, TRUE, b) :
        ct \in {"text/plain", "text/html"}, b \in {"YjE=", "!!"}}
    \cup {PartOf("text/html", "inline", FALSE, FALSE, "b1")}

AttachmentKinds ==
    {PartOf("image/png", d, cid, FALSE, "b1") :
        d \in {"attachment", DispFile}, cid \in BOOLEAN}
    \cup {PartOf("text/html", DispFile, TRUE, FALSE, "b2"),
          PartOf("image/png", DispFile, TRUE, TRUE, "!!")}

PartKinds == InlineKinds \cup AttachmentKinds \cup {<<Junk>>}

RECURSIVE Multipart(_)
Multipart(ps) ==
    IF ps = <<>> THEN <<>> ELSE <<Delim>> \o Head(ps) \o Multipart(Tail(ps))

FixedEnvelopes == {<<>>, <<Hdr("From", "a"), Hdr("To", "x"), Hdr("Subject", "s")>>}

Inputs ==
    \* any envelope, without body and with a plain body
    {h \o tail : h \in SeqsUpTo(EnvelopeLines, MaxHdrs),
                 tail \in {<<>>, <<Blank, Text("b1")>>}}
    \* a document that is one part
    \cup {h \o p : h \in FixedEnvelopes, p \in PartKinds}
    \* a multipart document, closed or cut short
    \cup {h \o <<Hdr("Content-Type", CtBoundary), Blank>> \o Multipart(ps) \o c :
            h \in FixedEnvelopes, ps \in SeqsUpTo(PartKinds, MaxParts),
            c \in {<<>>, <<Close>>}}

ParseInit ==
    /\ input \in Inputs
    /\ result = NotRun
    /\ data = [s \in Sessions |-> <<>>]
    /\ pc = [s \in Sessions |-> "idle"]
    /\ message = [s \in Sessions |-> NotRun]
    /\ chunks = [s \in Sessions |-> <<>>]
    /\ txn = [s \in Sessions |-> 0]
    /\ response = [s \in Sessions |-> "none"]
    /\ storage = <<>>
    /\ mutex = None
    /\ slot = [s \in Sessions |-> 0]
    /\ added = 0

\* Message::from(&input)
Transduce ==
    /\ result = NotRun
    /\ result' = MessageFrom(input)
    /\ UNCHANGED <<data, pc, message, chunks, txn, response, storage, mutex,
                   slot, added, input>>

ParseNext == Transduce

ParseSpec == ParseInit /\ [][ParseNext]_vars

(***************************** the claims **********************************)
Max(S) == CHOOSE i \in S : \A j \in S : j <= i
Min(S) == CHOOSE i \in S : \A j \in S : i <= j

Ran == result # NotRun
Returned == result.panic = "none"
Msg == result.msg[1]
Parsed == parse_mail(input)
Parts == PartsOf(Parsed)
PartIx == 1..Len(Parts)
Attached == {i \in PartIx : IsAttachment(Parts[i])}
InlineOf(mt) == {i \in PartIx : ~IsAttachment(Parts[i]) /\ mimetype(Parts[i]) = mt}
OtherInline ==
    {i \in PartIx : /\ ~IsAttachment(Parts[i])
                    /\ mimetype(Parts[i]) \notin {"text/html", "text/plain"}}
\* an attachment part with a filename, a Content-ID and a decodable body
FullAttachment(p) ==
    /\ get_content_disposition(p.headers).filename # None
    /\ get_first_value(p.headers, "Content-ID") # None
    /\ get_body(p) # None
InBusy(s) == pc[s] \in {"add", "write", "return"}

\* C1: after every data_end call the handler's buffer is empty, so the next
\* payload holds only the chunks of its own transaction.
C1Claim == \A s \in Sessions : response[s] = "OK" => data[s] = <<>>

\* C2: a payload the transducer cannot turn into a Message is answered by a
\* rejection; it never aborts the session's thread.
C2Claim == \A s \in Sessions : pc[s] # "panicked"

\* C3: an inline part that is neither text/html nor text/plain is skipped:
\* when every other part can be handled, a Message is returned, and the part
\* adds nothing to attachments or formats.
C3Claim ==
    (/\ Ran
     /\ ~Parsed.err
     /\ OtherInline # {}
     /\ \A i \in Attached : FullAttachment(Parts[i]))
    => /\ Returned
       /\ Len(Msg.attachments) = Cardinality(Attached)
       /\ Len(Msg.formats) = 1 + Cardinality(InlineOf("text/html"))
                               + Cardinality(InlineOf("text/plain"))

\* C4: every attachment part with a decodable body yields exactly one
\* Attachment, with the declared filename when there is one, also when the
\* filename parameter or the Content-ID header is missing.
C4Claim ==
    (/\ Ran
     /\ ~Parsed.err
     /\ Attached # {}
     /\ OtherInline = {}
     /\ \A i \in Attached : get_body(Parts[i]) # None)
    => /\ Returned
       /\ Len(Msg.attachments) = Cardinality(Attached)
       /\ \A i \in Attached :
            LET k == Cardinality({j \in Attached : j <= i})
                f == get_content_disposition(Parts[i].headers).filename
            IN f # None => Msg.attachments[k].filename = f[1]

\* C5: formats of a returned Message is "source" followed by "html" and
\* "plain", each at most once, in the order the types were first met.
C5Claim ==
    (Ran /\ Returned) =>
        LET f == Msg.formats
            H == InlineOf("text/html")
            P == InlineOf("text/plain")
        IN /\ f[1] = "source"
           /\ \A i \in 2..Len(f) : f[i] \in {"html", "plain"}
           /\ \A i, j \in 1..Len(f) : f[i] = f[j] => i = j
           /\ (\E i \in 2..Len(f) : f[i] = "html") <=> H # {}
           /\ (\E i \in 2..Len(f) : f[i] = "plain") <=> P # {}
           /\ (H # {} /\ P # {}) =>
                (Min(H) < Min(P) <=> f[2] = "html")

\* C6: a session is inside Storage::add only while it holds the storage
\* lock, so at most one session is inside it, and every add leaves one more
\* stored message under its own id.
C6Serialized ==
    /\ \A s \in Sessions : InBusy(s) => mutex = Some(s)
    /\ Len(storage) = added
    /\ \A i \in 1..Len(storage) : storage[i].id = Some(i)

C6Witness ==
    \E s, t \in Sessions : s # t /\ pc[s] = "write" /\ pc[t] = "lock"

HeaderIx(name) == {i \in 1..Len(Parsed.headers) : Parsed.headers[i].n = name}
FirstOr(name) ==
    IF HeaderIx(name) = {} THEN "" ELSE Parsed.headers[Min(HeaderIx(name))].v
\* C7: on a parseable input the headers never make the transducer fail, and
\* the Message has the value of the first From header (or ""), one recipient
\* per To header in header order, and the value of the first Subject header
\* (or "").
C7Headers ==
    (Ran /\ ~Parsed.err) =>
        /\ (OtherInline = {} /\ \A i \in Attached : FullAttachment(Parts[i]))
              => Returned
        /\ Returned =>
              /\ Msg.sender = FirstOr("From")
              /\ Msg.subject = FirstOr("Subject")
              /\ Len(Msg.recipients) = Cardinality(HeaderIx("To"))
              /\ \A i \in HeaderIx("To") :
                    Msg.recipients[Cardinality({j \in HeaderIx("To") : j <= i})]
                        = Parsed.headers[i].v

C7Witness ==
    /\ Ran /\ Returned
    /\ HeaderIx("Subject") = {} /\ Msg.subject = ""
    /\ HeaderIx("From") = {} /\ Msg.sender = ""
    /\ Msg.recipients = <<"y", "x">>

HeaderLines(d, name) == {i \in 1..Len(d) : d[i].t = "hdr" /\ d[i].n = name}
IsScenario(d) ==
    \E k \in 1..Len(d) :
        /\ d[k] = Blank
        /\ k < Len(d)
        /\ \A i \in 1..(k - 1) :
              d[i].t = "hdr" /\ d[i].n \in {"From", "To", "Subject"}
        /\ \A i \in (k + 1)..Len(d) : d[i].t = "text"
        /\ \A name \in {"From", "To", "Subject"} : HeaderLines(d, name) # {}
ScenarioHeaders ==
    /\ Returned
    /\ Msg.sender = input[Min(HeaderLines(input, "From"))].v
    /\ Msg.subject = input[Min(HeaderLines(input, "Subject"))].v
    /\ Len(Msg.recipients) = Cardinality(HeaderLines(input, "To"))
    /\ \A i \in 1..Len(Msg.recipients) :
          \E j \in HeaderLines(input, "To") : input[j].v = Msg.recipients[i]
    /\ Msg.attachments = <<>>
\* C8: a document of From, To and Subject headers, a blank line and a plain
\* body yields the header values, no attachment and formats = ["source"].
C8Claim ==
    (Ran /\ IsScenario(input)) =>
        (ScenarioHeaders /\ Msg.formats = <<"source">>)

\* C8, amended: the part has no Content-Type header, so it is text/plain,
\* and formats = ["source", "plain"].
C8Amended ==
    (Ran /\ IsScenario(input)) =>
        (ScenarioHeaders /\ Msg.formats = <<"source", "plain">>)

C8Witness ==
    /\ Ran /\ IsScenario(input) /\ Returned
    /\ Msg.formats = <<"source", "plain">>
    /\ Msg.sender = "a" /\ Msg.recipients = <<"x">> /\ Msg.subject = "s"

\* C9: in a session's first transaction the source of the Message handed to
\* storage is the concatenation, in arrival order, of the chunks that
\* session passed to data, whatever the other sessions do.
C9OwnChunks ==
    \A s \in Sessions :
        (txn[s] = 0 /\ pc[s] \in {"lock", "add", "write", "return"}) =>
            /\ message[s].msg[1].source = chunks[s]
            /\ pc[s] = "return" => storage[slot[s]].source = chunks[s]

C9Witness ==
    \E s, t \in Sessions :
        /\ s # t
        /\ txn[s] = 0 /\ pc[s] = "return"
        /\ Len(chunks[s]) = 2 /\ chunks[s][1] # chunks[s][2]
        /\ data[t] # <<>> /\ data[t][1] # chunks[s][1]

LastBody(mt) ==
    IF InlineOf(mt) = {} THEN None ELSE get_body(Parts[Max(InlineOf(mt))])
\* C10: html is the decoded body of the last inline text/html part, plain
\* that of the last inline text/plain part; attachment parts change neither.
C10LastWins ==
    (Ran /\ Returned) =>
        /\ Msg.html = LastBody("text/html")
        /\ Msg.plain = LastBody("text/plain")

C10Witness ==
    /\ Ran /\ Returned
    /\ Cardinality(InlineOf("text/html")) = 2
    /\ get_body(Parts[Min(InlineOf("text/html"))])
         # get_body(Parts[Max(InlineOf("text/html"))])
    /\ Msg.html = get_body(Parts[Max(InlineOf("text/html"))])
====
